---- MODULE Spec2Model ----
(***************************************************************************)
(* The identity-group resource handler of vault/resource_identity_group.go *)
(* as a state machine: the local ResourceData d, the remote path-addressed *)
(* store, and a log of the remote calls the last handler issued.           *)
(***************************************************************************)
EXTENDS Integers, Sequences, FiniteSets, TLC

VARIABLES d, store, nextId, op

vars == <<d, store, nextId, op>>

\* Number of ids the remote store may assign in one behaviour.
MaxIds == 1

\* The ids the store assigns, in the order it assigns them.
IdNames == <<"a", "b", "c", "d">>

Names == {"g1", "g2"}
Types == {"internal", "external"}
MetadataValues == {{}, {<<"k", "v">>}}
PoliciesValues == {<<>>, <<"p1">>}
MemberGroupValues == {<<>>, <<"sub">>}
MemberEntityValues == {<<>>, <<"e1">>}

NoData == [k \in {} |-> <<>>]

identityGroupPath == "/identity/group"

identityGroupNamePath(name) == <<identityGroupPath, "name", name>>

identityGroupIDPath(id) == <<identityGroupPath, "id", id>>

\* The zero value of a schema attribute (TypeString, TypeMap, TypeList).
ZeroValue(k) ==
  CASE k = "metadata" -> {}
    [] k \in {"policies", "member_group_ids", "member_entity_ids"} -> <<>>
    [] OTHER -> ""

\* d.GetOk(k): the value, and whether it is set to a non-zero value.
GetOk(rd, k) == [value |-> rd.attrs[k], ok |-> rd.attrs[k] # ZeroValue(k)]

\* d.Set(k, v) with v = resp.Data[k]; a key the response lacks is nil and
\* sets the attribute to its zero value.
Set(rd, k, data) ==
  [rd EXCEPT !.attrs[k] = IF k \in DOMAIN data THEN data[k] ELSE ZeroValue(k)]

SetId(rd, id) == [rd EXCEPT !.Id = id]

Put(data, k, v) == (k :> v) @@ data

\* identityGroupUpdateFields were it to put policies without asking GetOk.
UpdateFieldsAlwaysPolicies(rd, data) ==
  LET d1 == Put(data, "policies", rd.attrs.policies)
      d2 == IF GetOk(rd, "member_entity_ids").ok
            THEN Put(d1, "member_entity_ids", rd.attrs.member_entity_ids) ELSE d1
      d3 == IF GetOk(rd, "member_group_ids").ok
            THEN Put(d2, "member_group_ids", rd.attrs.member_group_ids) ELSE d2
  IN  IF GetOk(rd, "metadata").ok THEN Put(d3, "metadata", rd.attrs.metadata) ELSE d3

identityGroupUpdateFields(rd, data) ==
  LET d1 == IF GetOk(rd, "policies").ok
            THEN Put(data, "policies", GetOk(rd, "policies").value) ELSE data
      d2 == IF GetOk(rd, "member_entity_ids").ok
            THEN Put(d1, "member_entity_ids", GetOk(rd, "member_entity_ids").value)
            ELSE d1
      d3 == IF GetOk(rd, "member_group_ids").ok
            THEN Put(d2, "member_group_ids", GetOk(rd, "member_group_ids").value)
            ELSE d2
  IN  IF GetOk(rd, "metadata").ok
      THEN Put(d3, "metadata", GetOk(rd, "metadata").value) ELSE d3


(***************************************************************************)
(* The remote store behind client.Logical(): Write, Read and Delete at a   *)
(* path.  A group is stored under its server-assigned id.                  *)
(***************************************************************************)
GroupFields ==
  {"name", "type", "metadata", "policies", "member_group_ids", "member_entity_ids"}

\* The group a write to the collection path stores: absent keys take their
\* zero value, an absent type defaults to internal.
NewGroup(data) ==
  [k \in GroupFields |->
     IF k \in DOMAIN data THEN data[k]
     ELSE IF k = "type" THEN "internal" ELSE ZeroValue(k)]

\* The ids a path addresses among the stored groups.
Addressed(st, path) ==
  IF Len(path) # 3 THEN {}
  ELSE IF path[2] = "id" THEN {i \in DOMAIN st : i = path[3]}
  ELSE {i \in DOMAIN st : st[i].name = path[3]}

\* WRITE at a path: the collection path stores a new group under newId, an
\* id- or name-addressed path overwrites the keys of the payload only.
StoreWrite(st, path, data, newId) ==
  IF Len(path) = 1 THEN (newId :> NewGroup(data)) @@ st
  ELSE [i \in DOMAIN st |->
          IF i \in Addressed(st, path)
          THEN [k \in GroupFields |-> IF k \in DOMAIN data THEN data[k] ELSE st[i][k]]
          ELSE st[i]]

\* READ at a path: no payload when the path addresses no group.
StoreRead(st, path) ==
  IF Addressed(st, path) = {} THEN [nil |-> TRUE, data |-> NoData]
  ELSE LET i == CHOOSE j \in Addressed(st, path) : TRUE
       IN  [nil |-> FALSE, data |-> Put(st[i], "id", i)]

\* DELETE at a path.
StoreDelete(st, path) ==
  [i \in DOMAIN st \ Addressed(st, path) |-> st[i]]

\* What the remote call may answer besides success.
WriteFaults == {"ok", "err", "noid"}
ReadFaults == {"ok", "expired", "err"}
DeleteFaults == {"ok", "err"}

isExpiredTokenErr(err) == err = "expired"

\* Another client of the store acting between two calls of a handler.
NoMove == [kind |-> "none", id |-> "", value |-> <<>>]

ExtMoves(st) ==
  {NoMove}
  \cup {[kind |-> "delete", id |-> i, value |-> <<>>] : i \in DOMAIN st}
  \cup {m \in [kind : {"policies"}, id : DOMAIN st, value : PoliciesValues] :
          m.value # st[m.id].policies}

ExtApply(st, m) ==
  CASE m.kind = "delete" -> StoreDelete(st, identityGroupIDPath(m.id))
    [] m.kind = "policies" ->
         StoreWrite(st, identityGroupIDPath(m.id), [policies |-> m.value], "")
    [] OTHER -> st

\* One remote call as logged: where it went, what it carried, the tracked id
\* when it was issued, how it was answered and the id the answer carried.
Call(method, path, data, tracked, out, rid) ==
  [method |-> method, path |-> path, data |-> data, tracked |-> tracked,
   out |-> out, rid |-> rid]

(***************************************************************************)
(* The handlers.  Each returns the ResourceData, the store and the calls   *)
(* it leaves behind, with result "ok" (nil error), "error" or "panic".     *)
(***************************************************************************)
\* ReadFields were policies among the refreshed keys.
ReadFieldsWithPolicies ==
  <<"name", "type", "metadata", "policies", "member_entity_ids", "member_group_ids">>

ReadFields == <<"name", "type", "metadata", "member_entity_ids", "member_group_ids">>

RECURSIVE SetFields(_, _, _)
SetFields(rd, data, ks) ==
  IF ks = <<>> THEN rd ELSE SetFields(Set(rd, Head(ks), data), data, Tail(ks))

\* ReadFailure were an expired token to remove the id.
ReadFailureDropsId(rd, err) ==
  IF isExpiredTokenErr(err)
  THEN [d |-> SetId(rd, ""), result |-> "ok"]
  ELSE [d |-> rd, result |-> "error"]

\* Read, the remote read having failed with err: an expired token is not an
\* error and leaves the ResourceData alone.
ReadFailure(rd, err) ==
  IF isExpiredTokenErr(err)
  THEN [d |-> rd, result |-> "ok"]
  ELSE [d |-> rd, result |-> "error"]

\* ReadNotFound were it to keep the id.
ReadNotFoundKeepsId(rd) == [d |-> rd, result |-> "ok"]

\* Read, the remote read having returned no response: the id is removed.
ReadNotFound(rd) == [d |-> SetId(rd, ""), result |-> "ok"]

\* Read, the remote read having returned data.
ReadRefresh(rd, data) == [d |-> SetFields(rd, data, ReadFields), result |-> "ok"]

identityGroupRead(rd, st, rf) ==
  LET id == rd.Id
      path == identityGroupIDPath(id)
      resp == StoreRead(st, path)
      out == IF rf # "ok" THEN rf ELSE IF resp.nil THEN "nil" ELSE "data"
      calls == <<Call("READ", path, NoData, id, out, "")>>
      r == IF rf # "ok" THEN ReadFailure(rd, rf)
           ELSE IF resp.nil THEN ReadNotFound(rd)
           ELSE ReadRefresh(rd, resp.data)
  IN  [d |-> r.d, store |-> st, calls |-> calls, result |-> r.result]

\* CreateData were the type left out of the payload.
CreateDataWithoutType(rd) ==
  identityGroupUpdateFields(rd, [name |-> rd.attrs.name])

\* The payload create writes to the collection path.
CreateData(rd) ==
  identityGroupUpdateFields(rd, [name |-> rd.attrs.name, type |-> rd.attrs.type])

\* CreateAdopt were d.SetId left out.
CreateAdoptAttrOnly(rd, data) == Set(rd, "id", data)

\* Create takes the id of the write's response as attribute and as id.
CreateAdopt(rd, data) == SetId(Set(rd, "id", data), data.id)

identityGroupCreate(rd, st, newId, wf, ext, rf) ==
  LET path == <<identityGroupPath>>
      data == CreateData(rd)
      st1 == StoreWrite(st, path, data, newId)
      out == IF wf = "ok" THEN "data" ELSE wf
      wcall == Call("WRITE", path, data, rd.Id, out, IF wf = "ok" THEN newId ELSE "")
      rd1 == CreateAdopt(rd, [id |-> newId])
      st2 == ExtApply(st1, ext)
      r == identityGroupRead(rd1, st2, rf)
  IN  CASE wf = "err" ->
             [d |-> rd, store |-> st, calls |-> <<wcall>>, result |-> "error"]
        [] wf = "noid" ->
             [d |-> rd, store |-> st1, calls |-> <<wcall>>, result |-> "panic"]
        [] OTHER ->
             [d |-> r.d, store |-> st2, calls |-> <<wcall>> \o r.calls,
              result |-> r.result]

\* The payload update writes to the id-addressed path.
UpdateData(rd) == identityGroupUpdateFields(rd, NoData)

\* UpdateRefresh were update to return nil after its write.
UpdateWithoutRead(rd, st, rf) ==
  [d |-> rd, store |-> st, calls |-> <<>>, result |-> "ok"]

\* Update ends in a read of the group.
UpdateRefresh(rd, st, rf) == identityGroupRead(rd, st, rf)

identityGroupUpdate(rd, st, wf, ext, rf) ==
  LET id == rd.Id
      path == identityGroupIDPath(id)
      data == UpdateData(rd)
      st1 == StoreWrite(st, path, data, "")
      wcall == Call("WRITE", path, data, id, IF wf = "ok" THEN "data" ELSE wf, "")
      st2 == ExtApply(st1, ext)
      r == UpdateRefresh(rd, st2, rf)
  IN  IF wf # "ok"
      THEN [d |-> rd, store |-> st, calls |-> <<wcall>>, result |-> "error"]
      ELSE [d |-> r.d, store |-> st2, calls |-> <<wcall>> \o r.calls,
            result |-> r.result]

\* DeletePath were the id put into the name-addressed path.
DeletePathByName(rd) == identityGroupNamePath(rd.Id)

\* The path delete addresses.
DeletePath(rd) == identityGroupIDPath(rd.Id)

identityGroupDelete(rd, st, df) ==
  LET id == rd.Id
      path == DeletePath(rd)
      calls == <<Call("DELETE", path, NoData, id, IF df = "ok" THEN "data" ELSE df, "")>>
  IN  IF df # "ok"
      THEN [d |-> rd, store |-> st, calls |-> calls, result |-> "error"]
      ELSE [d |-> rd, store |-> StoreDelete(st, path), calls |-> calls,
            result |-> "ok"]

\* ExistsPath were the name never used.
ExistsPathById(rd) == identityGroupIDPath(rd.Id)

\* ExistsPath were the name always used.
ExistsPathByName(rd) == identityGroupNamePath(rd.attrs.name)

\* The path exists probes: the name-addressed one if no id is set.
ExistsPath(rd) ==
  IF Len(rd.Id) = 0 THEN identityGroupNamePath(rd.attrs.name)
  ELSE identityGroupIDPath(rd.Id)

identityGroupExists(rd, st, rf) ==
  LET path == ExistsPath(rd)
      resp == StoreRead(st, path)
      out == IF rf # "ok" THEN rf ELSE IF resp.nil THEN "nil" ELSE "data"
      calls == <<Call("READ", path, NoData, rd.Id, out, "")>>
  IN  IF rf # "ok"
      THEN [d |-> rd, store |-> st, calls |-> calls, result |-> "error",
            exists |-> TRUE]
      ELSE [d |-> rd, store |-> st, calls |-> calls, result |-> "ok",
            exists |-> ~resp.nil]

(***************************************************************************)
(* The state machine.                                                      *)
(***************************************************************************)
\* The record of the last step: the handler run, its result and remote calls,
\* the answer of exists, the move of another client during the handler, and
\* for a read whether it directly follows a successful delete.
Entry(name, result, calls, exists, ext, prev) ==
  [name |-> name, result |-> result, calls |-> calls, exists |-> exists,
   ext |-> ext, prev |-> prev]

Init ==
  /\ \E n \in Names, t \in Types :
       d = [Id |-> "",
            attrs |-> [id |-> "", name |-> n, type |-> t, metadata |-> {},
                       policies |-> <<>>, member_group_ids |-> <<>>,
                       member_entity_ids |-> <<>>]]
  /\ store = [i \in {} |-> NewGroup(NoData)]
  /\ nextId = 0
  /\ op = Entry("init", "ok", <<>>, FALSE, NoMove, "")

\* The settings of the optional attributes a configuration may carry: each
\* attribute set or unset, the two member lists set together.
Configs ==
  {c \in [metadata : MetadataValues, policies : PoliciesValues,
          member_group_ids : MemberGroupValues,
          member_entity_ids : MemberEntityValues] :
     (c.member_group_ids = <<>>) = (c.member_entity_ids = <<>>)}

\* The configuration sets the mutable attributes of the ResourceData.
Configure ==
  \E c \in Configs :
    /\ d' = [d EXCEPT !.attrs.metadata = c.metadata,
                      !.attrs.policies = c.policies,
                      !.attrs.member_group_ids = c.member_group_ids,
                      !.attrs.member_entity_ids = c.member_entity_ids]
    /\ op' = Entry("configure", "ok", <<>>, FALSE, NoMove, "")
    /\ UNCHANGED <<store, nextId>>

CreateStep(wf, ext, rf) ==
  \E r \in {identityGroupCreate(d, store, IdNames[nextId + 1], wf, ext, rf)} :
      /\ d' = r.d
      /\ store' = r.store
      /\ nextId' = IF wf = "err" THEN nextId ELSE nextId + 1
      /\ op' = Entry("create", r.result, r.calls, FALSE, ext, "")

\* Create runs on a resource that has no id yet.
Create ==
  /\ d.Id = ""
  /\ nextId < MaxIds
  /\ \/ \E wf \in WriteFaults \ {"ok"} : CreateStep(wf, NoMove, "ok")
     \/ \E rf \in ReadFaults :
          \E ext \in ExtMoves(StoreWrite(store, <<identityGroupPath>>,
                                         CreateData(d), IdNames[nextId + 1])) :
            CreateStep("ok", ext, rf)

UpdateStep(wf, ext, rf) ==
  \E r \in {identityGroupUpdate(d, store, wf, ext, rf)} :
      /\ d' = r.d
      /\ store' = r.store
      /\ op' = Entry("update", r.result, r.calls, FALSE, ext, "")
      /\ UNCHANGED nextId

\* Update runs on a resource that has an id.
Update ==
  /\ d.Id # ""
  /\ \/ UpdateStep("err", NoMove, "ok")
     \/ \E rf \in ReadFaults :
          \E ext \in ExtMoves(StoreWrite(store, identityGroupIDPath(d.Id),
                                         UpdateData(d), "")) :
            UpdateStep("ok", ext, rf)

Read ==
  \E rf \in ReadFaults :
    \E r \in {identityGroupRead(d, store, rf)} :
        /\ d' = r.d
        /\ op' = Entry("read", r.result, r.calls, FALSE, NoMove,
                     IF op.name = "delete" /\ op.result = "ok" THEN "delete" ELSE "")
        /\ UNCHANGED <<store, nextId>>

Delete ==
  \E df \in DeleteFaults :
    \E r \in {identityGroupDelete(d, store, df)} :
        /\ store' = r.store
        /\ d' = r.d
        /\ op' = Entry("delete", r.result, r.calls, FALSE, NoMove, "")
        /\ UNCHANGED nextId

Exists ==
  \E rf \in ReadFaults :
    \E r \in {identityGroupExists(d, store, rf)} :
        /\ op' = Entry("exists", r.result, r.calls, r.exists, NoMove, "")
        /\ UNCHANGED <<d, store, nextId>>

\* Another client deletes a group or rewrites its policies.
External ==
  \E m \in ExtMoves(store) \ {NoMove} :
    /\ store' = ExtApply(store, m)
    /\ op' = Entry("external", "ok", <<>>, FALSE, m, "")
    /\ UNCHANGED <<d, nextId>>

Next ==
  \/ Configure
  \/ Create
  \/ Update
  \/ Read
  \/ Delete
  \/ Exists
  \/ External

Spec == Init /\ [][Next]_vars

(***************************************************************************)
(* Properties.                                                             *)
(***************************************************************************)
OptionalFields == {"metadata", "policies", "member_group_ids", "member_entity_ids"}

RefreshedFields == {"name", "type", "metadata", "member_entity_ids", "member_group_ids"}

LastCall(o) == o.calls[Len(o.calls)]

\* The last remote call of the step logged in o is the READ of
\* identityGroupRead, answered out.
ReadAnswered(o, out) ==
  /\ o.name \in {"read", "update", "create"}
  /\ o.calls # <<>>
  /\ LastCall(o).method = "READ"
  /\ LastCall(o).out = out

\* C1: a create that returns no error, and a read directly after it, leave
\* the local name and type equal to the name and type create was given.
C1_CreateThenReadKeepsNameAndType ==
  [][/\ (op'.name = "create" /\ op'.result = "ok")
          => (d'.attrs.name = d.attrs.name /\ d'.attrs.type = d.attrs.type)
     /\ (op.name = "create" /\ op.result = "ok" /\ op'.name = "read")
          => (d'.attrs.name = d.attrs.name /\ d'.attrs.type = d.attrs.type)]_vars

C1_Witness ==
  /\ op.name = "create"
  /\ op.result = "ok"
  /\ ReadAnswered(op, "data")
  /\ d.attrs.type = "external"
  /\ d.attrs.name = op.calls[1].data.name

\* C2: update writes to the id-addressed path a payload holding exactly the
\* optional attributes set (non-zero) in the ResourceData, with their values,
\* and never name or type; the stored group keeps every key the payload
\* lacks when no other client acts during the update.
C2_UpdateSendsOnlySetFields ==
  [][op'.name = "update" =>
       LET c == op'.calls[1]
           sent == {k \in OptionalFields : d.attrs[k] # ZeroValue(k)}
       IN  /\ c.method = "WRITE"
           /\ c.path = identityGroupIDPath(d.Id)
           /\ DOMAIN c.data = sent
           /\ \A k \in sent : c.data[k] = d.attrs[k]
           /\ (c.out = "data" /\ op'.ext = NoMove /\ d.Id \in DOMAIN store)
                => /\ d.Id \in DOMAIN store'
                   /\ \A k \in GroupFields \ sent : store'[d.Id][k] = store[d.Id][k]]_vars

C2_Witness ==
  /\ op.name = "update"
  /\ op.calls[1].out = "data"
  /\ op.ext = NoMove
  /\ DOMAIN op.calls[1].data = {"metadata"}
  /\ op.calls[1].tracked \in DOMAIN store
  /\ store[op.calls[1].tracked].policies # <<>>

\* C3: when the remote read of read, issued with a tracked id, returns no
\* payload, read returns no error, the tracked id is empty afterwards and no
\* attribute is overwritten.
C3_ReadAbsentClearsId ==
  [][(ReadAnswered(op', "nil") /\ LastCall(op').tracked # "") =>
       /\ op'.result = "ok"
       /\ d'.Id = ""
       /\ \A k \in DOMAIN d.attrs :
            (k = "id" /\ op'.name = "create") \/ d'.attrs[k] = d.attrs[k]]_vars

C3_Witness ==
  /\ op.name = "read"
  /\ ReadAnswered(op, "nil")
  /\ LastCall(op).tracked # ""
  /\ d.Id = ""
  /\ d.attrs.metadata # {}

\* C4: when the remote read of read fails with an expired credential, read
\* returns no error and the id and every attribute are as before the call;
\* when it fails otherwise, read returns an error.
C4_ExpiredReadChangesNothing ==
  [][/\ ReadAnswered(op', "expired") =>
          /\ op'.result = "ok"
          /\ op'.name # "create" => d' = d
          /\ op'.name = "create" =>
               \A k \in DOMAIN d.attrs \ {"id"} : d'.attrs[k] = d.attrs[k]
     /\ ReadAnswered(op', "err") => op'.result = "error"]_vars

C4_Witness ==
  /\ op.name = "read"
  /\ ReadAnswered(op, "expired")
  /\ op.result = "ok"
  /\ d.Id # ""
  /\ d.attrs.policies # <<>>

\* C5: exists issues one remote read, at the name-addressed path of the local
\* name when the tracked id is empty and at the id-addressed path of the
\* tracked id otherwise, and when the read does not fail it answers true
\* exactly when the path holds a group.
C5_ExistsProbesNameOrId ==
  op.name = "exists" =>
    /\ Len(op.calls) = 1
    /\ op.calls[1].method = "READ"
    /\ op.calls[1].path = IF d.Id = "" THEN <<"/identity/group", "name", d.attrs.name>>
                          ELSE <<"/identity/group", "id", d.Id>>
    /\ op.calls[1].out \notin {"expired", "err"} =>
         /\ op.result = "ok"
         /\ op.exists <=>
              \E i \in DOMAIN store :
                IF d.Id = "" THEN store[i].name = d.attrs.name ELSE i = d.Id

C5_Witness ==
  /\ op.name = "exists"
  /\ d.Id = ""
  /\ op.result = "ok"
  /\ op.exists
  /\ op.calls[1].path[2] = "name"

\* C6: a read directly after a successful delete, its remote read answered,
\* finds no group: it returns no error and the tracked id is empty, also when
\* the id was empty already.
C6_DeleteThenReadIsAbsent ==
  (op.name = "read" /\ op.prev = "delete"
     /\ op.calls[1].out \notin {"expired", "err"}) =>
    /\ op.calls[1].out = "nil"
    /\ op.result = "ok"
    /\ d.Id = ""

C6_Witness ==
  /\ op.name = "read"
  /\ op.prev = "delete"
  /\ op.calls[1].out = "nil"
  /\ op.calls[1].tracked # ""
  /\ op.calls[1].tracked = d.attrs.id
  /\ d.Id = ""

\* C7 as stated: update and delete issue exactly one remote call, create one
\* when its write fails and two when it succeeds.
C7_Original ==
  /\ op.name \in {"update", "delete"} => Len(op.calls) = 1
  /\ (op.name = "create" /\ op.calls[1].out = "err") => Len(op.calls) = 1
  /\ (op.name = "create" /\ op.calls[1].out = "data") => Len(op.calls) = 2

\* C7 amended: delete issues exactly one remote call; update and create issue
\* one, the write, when the write fails (or, for create, answers without an
\* id) and two, the write and one read at the id-addressed path, when the
\* write succeeds; read and exists issue one read.
C7_CallsPerOperation ==
  /\ op.name \in {"delete", "read", "exists"} => Len(op.calls) = 1
  /\ op.name = "delete" => op.calls[1].method = "DELETE"
  /\ op.name \in {"update", "create"} =>
       /\ op.calls[1].method = "WRITE"
       /\ op.calls[1].out # "data" => Len(op.calls) = 1
       /\ op.calls[1].out = "data" =>
            /\ Len(op.calls) = 2
            /\ op.calls[2].method = "READ"
            /\ op.calls[2].path[2] = "id"
  /\ op.name \in {"init", "configure", "external"} => op.calls = <<>>

C7_Witness ==
  /\ op.name = "update"
  /\ Len(op.calls) = 2
  /\ op.calls[1].out = "data"
  /\ op.calls[2].out = "data"

\* C8: every remote call issued while the tracked id is non-empty goes to the
\* id-addressed path of that id, and a call to a name-addressed path is
\* issued only while the tracked id is empty.
C8_IdAddressingOnceTracked ==
  \A n \in 1..Len(op.calls) :
    LET c == op.calls[n]
    IN  /\ c.tracked # "" => c.path = <<"/identity/group", "id", c.tracked>>
        /\ (Len(c.path) = 3 /\ c.path[2] = "name") => c.tracked = ""

C8_Witness ==
  /\ op.name = "exists"
  /\ op.calls[1].tracked # ""
  /\ op.calls[1].path[2] = "id"

\* C9 as stated: whenever create returns without error the tracked id is
\* non-empty and is the id the store returned to the write.
C9_Original ==
  (op.name = "create" /\ op.result = "ok") =>
    (d.Id # "" /\ d.Id = op.calls[1].rid)

\* C9 amended: whenever create returns without error, the tracked id is the
\* non-empty id the store returned to the write unless the trailing read
\* found no group, and then the tracked id is empty.
C9_CreateTracksReturnedId ==
  (op.name = "create" /\ op.result = "ok") =>
    IF op.calls[2].out = "nil" THEN d.Id = ""
    ELSE d.Id # "" /\ d.Id = op.calls[1].rid /\ d.attrs.id = op.calls[1].rid

C9_Witness ==
  /\ op.name = "create"
  /\ op.result = "ok"
  /\ op.ext.kind = "policies"
  /\ d.Id # ""
  /\ d.Id = op.calls[1].rid

\* C10: a read that finds the group sets the local name, type, metadata,
\* member_entity_ids and member_group_ids to those of the stored group and
\* leaves the local policies alone; the local policies change in no step but
\* a configuration of the resource.
C10_ReadLeavesPolicies ==
  [][/\ ReadAnswered(op', "data") =>
          /\ \A k \in RefreshedFields :
               d'.attrs[k] = store'[LastCall(op').tracked][k]
          /\ d'.attrs.policies = d.attrs.policies
     /\ d'.attrs.policies # d.attrs.policies => op'.name = "configure"]_vars

C10_Witness ==
  /\ op.name = "read"
  /\ ReadAnswered(op, "data")
  /\ d.attrs.policies = <<>>
  /\ store[d.Id].policies # <<>>
  /\ d.attrs.metadata # {}

====
